---- MODULE Spec2Model ----
(***************************************************************************)
(* Snapshot reconciliation of tx-spark/sparkflow.                          *)
(*                                                                         *)
(* merge_with_current_data(new_df, curr_df) of                             *)
(* src/pipelines/flows/tlo_scraper/extract_functions.py is modelled on     *)
(* tables whose rows form a bag (a DataFrame may hold the same row more    *)
(* than once; row order plays no part in the properties below).            *)
(*                                                                         *)
(* A table is a record [present, cols, rows]: present = FALSE is Python's  *)
(* None, cols is df.columns, rows is a bag of functions cols -> value.     *)
(* Business cells are strings (NA is pd.NA), timestamp cells are integers  *)
(* (clock ticks, NaT is the missing timestamp an outer merge produces).    *)
(* Snapshots never contain the reserved token "___NULL___" as a real value.*)
(***************************************************************************)
EXTENDS Integers, Sequences, FiniteSets, Bags, TLC

\* ---- bounds --------------------------------------------------------------
MaxClock == 3
TicksPerMinute == 2
MaxRows == 4
MaxSnapRows == 2

\* ---- values --------------------------------------------------------------
NA == "NA"
NaT == -1
placeholder == "___NULL___"
TimestampColumns == {"first_seen_at", "last_seen_at"}

BillIds == {"HB1"}
Comments == {"A", "B", NA}
SnapshotColumnSets == {{"bill_id"}, {"bill_id", "comment"}}

CellValues(c) == IF c = "bill_id" THEN BillIds ELSE Comments

\* ---- tables --------------------------------------------------------------
NoTable == [present |-> FALSE, cols |-> {}, rows |-> EmptyBag]

Table(cols, rows) == [present |-> TRUE, cols |-> cols, rows |-> rows]

\* len(df)
Len_df(df) == BagCardinality(df.rows)

FloorMin_not_truncated(t) == t

\* pd.Timestamp.now().floor("min")
FloorMin(t) == (t \div TicksPerMinute) * TicksPerMinute

RECURSIVE SumCopies(_, _, _, _)
SumCopies(f(_), B, y, S) ==
    IF S = {} THEN 0
    ELSE LET x == CHOOSE e \in S : TRUE
         IN  (IF f(x) = y THEN B[x] ELSE 0) + SumCopies(f, B, y, S \ {x})

\* apply a row-wise transformation to a bag of rows, keeping multiplicities
MapRows(f(_), B) ==
    [y \in {f(x) : x \in DOMAIN B} |-> SumCopies(f, B, y, DOMAIN B)]

\* df[col] = value  (column assignment, broadcast to every row)
SetColumn(df, col, value) ==
    Table(df.cols \cup {col},
          MapRows(LAMBDA r : [c \in df.cols \cup {col} |->
                                 IF c = col THEN value ELSE r[c]], df.rows))

\* for col in all_columns: if col not in df.columns: df[col] = pd.NA
AddMissingColumns(df, all_columns) ==
    Table(all_columns,
          MapRows(LAMBDA r : [c \in all_columns |->
                                 IF c \in df.cols THEN r[c] ELSE NA], df.rows))

\* df.fillna(placeholder): timestamp cells are never null (every path stamps
\* them), so only business cells can change
fillna(df) ==
    Table(df.cols,
          MapRows(LAMBDA r : [c \in df.cols |->
                                 IF c \in TimestampColumns THEN r[c]
                                 ELSE IF r[c] = NA THEN placeholder ELSE r[c]],
                  df.rows))

replace_placeholder_forgotten(r) == r

\* merged.replace(placeholder, pd.NA) on one row
replace_placeholder(r) ==
    [c \in DOMAIN r |->
        IF c \in TimestampColumns THEN r[c]
        ELSE IF r[c] = placeholder THEN NA ELSE r[c]]

\* match_columns = new_df.columns.tolist(), taken before any column is added
match_columns(new_df) == new_df.cols

\* ---- new_df.merge(curr_df, on=match_columns, how="outer", indicator=True) --
\* A merged row is [key, x, y, _merge]: key holds the `on` columns, x and y
\* the overlapping other columns of the left and right side (pandas names
\* them <col>_x and <col>_y), _merge the indicator.
KeyOf(r, on) == [c \in on |-> r[c]]

OtherOf(r, on) == [c \in (DOMAIN r) \ on |-> r[c]]

\* the NaN / NaT cells an outer merge fills in for the absent side
MissingSide(others) ==
    [c \in others |-> IF c \in TimestampColumns THEN NaT ELSE NA]

MergedRows(left, right, on) ==
    LET others == left.cols \ on
        L == DOMAIN left.rows
        R == DOMAIN right.rows
    IN  {[key |-> KeyOf(s, on), x |-> OtherOf(s, on), y |-> OtherOf(h, on),
          _merge |-> "both"] :
            <<s, h>> \in {p \in L \X R : KeyOf(p[1], on) = KeyOf(p[2], on)}}
        \cup
        {[key |-> KeyOf(s, on), x |-> OtherOf(s, on), y |-> MissingSide(others),
          _merge |-> "left_only"] :
            s \in {l \in L : \A h \in R : KeyOf(l, on) # KeyOf(h, on)}}
        \cup
        {[key |-> KeyOf(h, on), x |-> MissingSide(others), y |-> OtherOf(h, on),
          _merge |-> "right_only"] :
            h \in {r \in R : \A s \in L : KeyOf(r, on) # KeyOf(s, on)}}

\* every pair of equal-key rows yields one merged row (cartesian product)
Merge(left, right, on) ==
    [m \in MergedRows(left, right, on) |->
        CASE m._merge = "both" ->
                 left.rows[m.key @@ m.x] * right.rows[m.key @@ m.y]
          [] m._merge = "left_only" -> left.rows[m.key @@ m.x]
          [] m._merge = "right_only" -> right.rows[m.key @@ m.y]]

first_seen_at_stamps_old_rows(m, curr_time) ==
    CASE m._merge = "left_only" -> curr_time
      [] m._merge = "both" -> m.y["first_seen_at"]
      [] m._merge = "right_only" -> curr_time

\* merged.loc[<mask>, "first_seen_at"] = ... for the three masks
first_seen_at(m, curr_time) ==
    CASE m._merge = "left_only" -> curr_time
      [] m._merge = "both" -> m.y["first_seen_at"]
      [] m._merge = "right_only" -> m.y["first_seen_at"]

last_seen_at_not_advanced(m, curr_time) ==
    CASE m._merge = "left_only" -> curr_time
      [] m._merge = "both" -> m.y["last_seen_at"]
      [] m._merge = "right_only" -> m.y["last_seen_at"]

last_seen_at_restamps_old_rows(m, curr_time) ==
    CASE m._merge = "left_only" -> curr_time
      [] m._merge = "both" -> curr_time
      [] m._merge = "right_only" -> curr_time

\* merged.loc[<mask>, "last_seen_at"] = ... for the three masks
last_seen_at(m, curr_time) ==
    CASE m._merge = "left_only" -> curr_time
      [] m._merge = "both" -> curr_time
      [] m._merge = "right_only" -> m.y["last_seen_at"]

\* drop first_seen_at_x/_y, last_seen_at_x/_y, _merge and every other column
\* ending in _x or _y: what remains is the key and the two stamped columns
DropMergeArtifacts(m, curr_time) ==
    m.key @@ [first_seen_at |-> first_seen_at(m, curr_time),
              last_seen_at |-> last_seen_at(m, curr_time)]

\* new_df["first_seen_at"] = curr_time; new_df["last_seen_at"] = curr_time
stamp_new(new_df, curr_time) ==
    SetColumn(SetColumn(new_df, "first_seen_at", curr_time),
              "last_seen_at", curr_time)

\* the path taken when both tables have rows
merge_both(new_df, curr_df, curr_time) ==
    LET on == match_columns(new_df)
        stamped == stamp_new(new_df, curr_time)
        all_columns == stamped.cols \cup curr_df.cols
        left == fillna(AddMissingColumns(stamped, all_columns))
        right == fillna(AddMissingColumns(curr_df, all_columns))
        merged == Merge(left, right, on)
    IN  Table(on \cup TimestampColumns,
              MapRows(LAMBDA m :
                          replace_placeholder(DropMergeArtifacts(m, curr_time)),
                      merged))

merge_with_current_data_no_empty_check(new_df, curr_df, curr_time) ==
    IF ~curr_df.present \/ Len_df(curr_df) = 0
    THEN stamp_new(new_df, curr_time)
    ELSE merge_both(new_df, curr_df, curr_time)

merge_with_current_data(new_df, curr_df, curr_time) ==
    IF Len_df(new_df) = 0 THEN curr_df
    ELSE IF ~curr_df.present \/ Len_df(curr_df) = 0
    THEN stamp_new(new_df, curr_time)
    ELSE merge_both(new_df, curr_df, curr_time)

\* ---- the inputs of a run -------------------------------------------------
RowsOver(cols) == {r \in [cols -> BillIds \cup Comments] :
                      \A c \in cols : r[c] \in CellValues(c)}

BagOfSeq(q) ==
    [r \in {q[i] : i \in DOMAIN q} |-> Cardinality({i \in DOMAIN q : q[i] = r})]

Snapshots ==
    UNION {{Table(cols, BagOfSeq(q)) :
              q \in UNION {[1..n -> RowsOver(cols)] : n \in 0..MaxSnapRows}} :
           cols \in SnapshotColumnSets}

\* ---- state ---------------------------------------------------------------
\* clock     wall clock, in ticks
\* hist      the stored history table (curr_df of the next run)
\* snap      the snapshot of the latest run (new_df)
\* prev      the history the latest run was given
\* run_time  curr_time of the latest run that computed it
VARIABLES clock, hist, snap, prev, run_time

vars == <<clock, hist, snap, prev, run_time>>

\* ftp         FtpConnection.ftp
\* ftp_call    the latest method call on the connection: its name, its URL
\*             and self.ftp as the call found it
\* ftp_in      what the server did in that call: <<first attempt, connect,
\*             second attempt>>
\* ftp_out     what the call returned, called and sent
VARIABLES ftp, ftp_call, ftp_in, ftp_out

ftp_vars == <<ftp, ftp_call, ftp_in, ftp_out>>

\* get_raw_bills_data(leg_session) of tlo_scraper/extract_functions.py:
\* ext_pc            where the call is: in get_bill_urls ("get_bill_urls"),
\*                   back from it with the list ("bill_urls"), in the loop
\*                   over the items ("bills"), or left by return or raise
\* chamber           index of the chamber (category) being listed
\* folders           range folders of that chamber still to list
\* bill_urls         length of the list bill_urls
\* urls_error_count  error_count of get_bill_urls
\* ls_failed         listings of this traversal whose every attempt failed
\* fetched           items the loop has gone through
\* raw_bills         the list raw_bills: the positions in bill_urls of the
\*                   items whose record was appended
\* error_count       error_count of get_raw_bills_data
\* null_fetches      items whose get_data ended as None
\* item              the latest item: what get_data gave, the document, and
\*                   what parse_bill_xml made of it
VARIABLES ext_pc, chamber, folders, bill_urls, urls_error_count, ls_failed,
          fetched, raw_bills, error_count, null_fetches, item

walk_vars == <<chamber, folders, bill_urls, urls_error_count, ls_failed>>

loop_vars == <<fetched, raw_bills, error_count, null_fetches, item>>

ext_vars == <<ext_pc, walk_vars, loop_vars>>

\* tx_leg_pipeline of tx_leg.py:
\* stage          index of the next stage of the flow
\* run_state      "running", "finished" (the flow returned) or "aborted" (an
\*                exception left the flow)
\* written        the stages that have written their table to the sink
\* exceeded       the stages whose extraction gave up on its error budget
\* ran_after      the stages started after a budget was exceeded
\* written_after  the stages that wrote their table after that
VARIABLES stage, run_state, written, exceeded, ran_after, written_after

pipe_vars == <<stage, run_state, written, exceeded, ran_after, written_after>>

\* HouseCalendarParser._extract_calendar_type:
\* cal_pc         the strategy about to be tried, or "returned"
\* cal_text       the text the returning strategy passed to
\*                _normalize_calendar_type (empty: none was passed)
\* cal_by         the strategy that returned ("default": none did)
\* calendar_type  the value returned
VARIABLES cal_pc, cal_text, cal_by, calendar_type

cal_vars == <<cal_pc, cal_text, cal_by, calendar_type>>

\* wh   the table of the warehouse that the tasks of tx_leg.py append to and
\*      regroup
VARIABLES wh

wh_vars == <<wh>>

\* get_committee_meetings_links(leg_session):
\* links_pc            where the call is: "loop", "returned", "raised"
\* visited             the chambers whose iteration has ended, in order
\* committee_meetings  the list committee_meetings: chamber and position of
\*                     every link appended
\* links_error_count   error_count of get_committee_meetings_links
VARIABLES links_pc, visited, committee_meetings, links_error_count

links_vars == <<links_pc, visited, committee_meetings, links_error_count>>

\* the normalizer (clean_bill_id and the transforms that call it) and the
\* spacing rule of the page parser:
\* norm_op   the function applied last
\* norm_in   its argument: an identifier, or the bill_id column of raw_bills_df
\* norm_out  whether it raised, and what it returned
VARIABLES norm_op, norm_in, norm_out

norm_vars == <<norm_op, norm_in, norm_out>>

\* HouseCalendarParser.parse(data):
\* parse_pc  where the call is: "start", "returned", "raised"
\* data      the document: its title line, its date line, its body
\* calendar  the Calendar returned
VARIABLES parse_pc, data, calendar

parse_vars == <<parse_pc, data, calendar>>

\* the state a reconciliation run does not touch
outside_merge == <<wh_vars, ftp_vars, ext_vars, pipe_vars, cal_vars, links_vars, norm_vars, parse_vars>>

\* the state no reconciliation touches, in memory or in the warehouse
outside_tables == <<ftp_vars, ext_vars, pipe_vars, cal_vars, links_vars, norm_vars, parse_vars>>

Init ==
    /\ clock = 0
    /\ hist \in {NoTable, Table({"bill_id"} \cup TimestampColumns, EmptyBag)}
    /\ snap = Table({"bill_id"}, EmptyBag)
    /\ prev = hist
    /\ run_time = 0

Tick ==
    /\ clock < MaxClock
    /\ clock' = clock + 1
    /\ UNCHANGED <<hist, snap, prev, run_time>>
    /\ UNCHANGED outside_merge

\* one pipeline task: result_df = merge_with_current_data(new_df, curr_df),
\* then the result replaces the stored table
Run(new_df) ==
    LET curr_time == FloorMin(clock)
        result_df == merge_with_current_data(new_df, hist, curr_time)
    IN  /\ Len_df(result_df) <= MaxRows
        /\ hist' = result_df
        /\ snap' = new_df
        /\ prev' = hist
        /\ run_time' = IF Len_df(new_df) = 0 THEN run_time ELSE curr_time
        /\ UNCHANGED clock
        /\ UNCHANGED outside_merge

Next == Tick \/ \E new_df \in Snapshots : Run(new_df)

\* result_df.drop_duplicates()
drop_duplicates(df) == Table(df.cols, SetToBag(DOMAIN df.rows))

\* the actions task: merge, then drop_duplicates(), then replace the stored
\* table; with no result table (None) the task raises and writes nothing
RunActions(new_df) ==
    LET curr_time == FloorMin(clock)
        result_df == merge_with_current_data(new_df, hist, curr_time)
    IN  /\ Len_df(result_df) <= MaxRows
        /\ hist' = IF result_df.present THEN drop_duplicates(result_df) ELSE hist
        /\ snap' = new_df
        /\ prev' = hist
        /\ run_time' = IF Len_df(new_df) = 0 THEN run_time ELSE curr_time
        /\ UNCHANGED clock
        /\ UNCHANGED outside_merge

NextActions == Tick \/ \E new_df \in Snapshots : RunActions(new_df)

\* ---- the warehouse path (tx_leg.py, merge_new_data_in_database) -----------
\* '%Y-%m-%d %H:%M:%S' text of a timestamp: the minutes, then the part of the
\* minute
strftime(t) == <<t \div TicksPerMinute, t % TicksPerMinute>>

PARSE_TIMESTAMP(text) == text[1] * TicksPerMinute + text[2]

\* the datetime columns of a frame written as text
datetime_as_text(df) ==
    Table(df.cols,
          MapRows(LAMBDA r : [c \in df.cols |->
                                 IF c \in TimestampColumns THEN strftime(r[c])
                                 ELSE r[c]], df.rows))

\* dataframe_to_bigquery(df, ..., 'append'): an empty frame is not loaded; the
\* datetime columns are loaded as text; the first load creates the table
append(table, df) ==
    IF Len_df(df) = 0 THEN table
    ELSE IF ~table.present THEN datetime_as_text(df)
    ELSE Table(table.cols, table.rows (+) datetime_as_text(df).rows)

\* the rows of one group of GROUP BY <all columns but the two timestamps>;
\* NULL cells fall in one group
GroupOf(table, r) ==
    {q \in DOMAIN table.rows :
        \A c \in table.cols \ TimestampColumns : q[c] = r[c]}

MinOf(S) == CHOOSE x \in S : \A y \in S : x <= y

MaxOf(S) == CHOOSE x \in S : \A y \in S : y <= x

merge_new_data_in_database_latest_first_seen(table) ==
    IF ~table.present THEN table
    ELSE Table(table.cols,
               SetToBag({[c \in table.cols |->
                            IF c = "first_seen_at"
                            THEN strftime(MaxOf({PARSE_TIMESTAMP(q[c]) :
                                                   q \in GroupOf(table, r)}))
                            ELSE IF c = "last_seen_at"
                            THEN strftime(MaxOf({PARSE_TIMESTAMP(q[c]) :
                                                   q \in GroupOf(table, r)}))
                            ELSE r[c]] : r \in DOMAIN table.rows}))

\* CREATE OR REPLACE TABLE t AS SELECT <columns>, MIN(first_seen_at),
\* MAX(last_seen_at) FROM t GROUP BY <columns>; on a table that does not exist
\* the query fails and nothing is created
merge_new_data_in_database(table) ==
    IF ~table.present THEN table
    ELSE Table(table.cols,
               SetToBag({[c \in table.cols |->
                            IF c = "first_seen_at"
                            THEN strftime(MinOf({PARSE_TIMESTAMP(q[c]) :
                                                   q \in GroupOf(table, r)}))
                            ELSE IF c = "last_seen_at"
                            THEN strftime(MaxOf({PARSE_TIMESTAMP(q[c]) :
                                                   q \in GroupOf(table, r)}))
                            ELSE r[c]] : r \in DOMAIN table.rows}))

\* the snapshots of one fixed column set
FixedColumns == {"bill_id", "comment"}

FixedSnapshots == {new_df \in Snapshots : new_df.cols = FixedColumns}

WhInit == wh = NoTable

\* one snapshot given to both reconcilers at the same minute: the in-memory
\* merge as in Run, and the task of tx_leg.py: stamp, append, regroup
RunBoth(new_df) ==
    LET curr_time == FloorMin(clock)
        result_df == merge_with_current_data(new_df, hist, curr_time)
    IN  /\ Len_df(result_df) <= MaxRows
        /\ hist' = result_df
        /\ snap' = new_df
        /\ prev' = hist
        /\ run_time' = IF Len_df(new_df) = 0 THEN run_time ELSE curr_time
        /\ wh' = merge_new_data_in_database(
                     append(wh, stamp_new(new_df, curr_time)))
        /\ UNCHANGED clock
        /\ UNCHANGED outside_tables

NextBoth == Tick \/ \E new_df \in FixedSnapshots : RunBoth(new_df)

\* ---- FtpConnection (src/pipelines/flows/utils.py) --------------------------
\* self.ftp is "open" (logged-in session), "None" (released by close()) or
\* "unauth" (FTP() succeeded but login() raised).  A URL is the record
\* urlparse() makes of it.  What the server does at each attempt is an input
\* of the call: an operation on an open session returns one of its outcomes
\* or raises; on any other handle it raises.
Host == "ftp.legis.state.tx.us"

UrlHosts == {Host, "capitol.texas.gov"}

Urls == [netloc : UrlHosts, path : {"/bills/89R"}]

ConnectOutcomes == {"ok", "FTP_raises", "login_raises"}

RetrieveOutcomes == {"data", "empty", "raises"}

ListDirOutcomes == {"urls", "no_urls", "raises"}

PdfOutcomes == {"text", "no_text", "empty", "raises"}

QuitOutcomes == {"ok", "BrokenPipeError", "raises"}

connect_session_not_stored(handle, c) ==
    CASE c = "ok" -> handle
      [] c = "FTP_raises" -> handle
      [] c = "login_raises" -> "unauth"

\* self.ftp = FTP(self.host, timeout=self.timeout); self.ftp.login(...)
connect(handle, c) ==
    CASE c = "ok" -> "open"
      [] c = "FTP_raises" -> handle
      [] c = "login_raises" -> "unauth"

\* operation(): self.ftp.retrbinary(...) / self.ftp.retrlines(...)
operation(handle, e) == IF handle = "open" THEN e ELSE "raises"

\* a command goes out on the control connection unless there is no handle
CommandsSent(handle) == IF handle = "None" THEN 0 ELSE 1

retry_on_disconnect_keeps_retrying(handle, e1, c, e2) ==
    LET first == operation(handle, e1)
        h2 == connect(handle, c)
        second == operation(h2, e2)
        h3 == connect(h2, c)
        third == operation(h3, e2)
    IN  IF first # "raises"
        THEN [ret |-> first, ftp |-> handle, log |-> <<"operation">>,
              cmds |-> CommandsSent(handle)]
        ELSE IF second # "raises"
        THEN [ret |-> second, ftp |-> h2,
              log |-> <<"operation", "connect", "operation">>,
              cmds |-> CommandsSent(handle) + CommandsSent(h2)]
        ELSE [ret |-> IF third = "raises" THEN "None" ELSE third, ftp |-> h3,
              log |-> <<"operation", "connect", "operation", "connect",
                        "operation">>,
              cmds |-> CommandsSent(handle) + CommandsSent(h2)
                       + CommandsSent(h3)]

retry_on_disconnect_reraises(handle, e1, c, e2) ==
    LET first == operation(handle, e1)
        h2 == connect(handle, c)
        second == operation(h2, e2)
    IN  IF first # "raises"
        THEN [ret |-> first, ftp |-> handle, log |-> <<"operation">>,
              cmds |-> CommandsSent(handle)]
        ELSE IF c # "ok"
        THEN [ret |-> "raises", ftp |-> h2, log |-> <<"operation", "connect">>,
              cmds |-> CommandsSent(handle)]
        ELSE [ret |-> second, ftp |-> h2,
              log |-> <<"operation", "connect", "operation">>,
              cmds |-> CommandsSent(handle) + CommandsSent(h2)]

\* FtpConnection._retry_on_disconnect: ret is what the call returns, log the
\* order of operation() and connect() calls, cmds the commands sent
retry_on_disconnect(handle, e1, c, e2) ==
    LET first == operation(handle, e1)
        h2 == connect(handle, c)
        second == operation(h2, e2)
    IN  IF first # "raises"
        THEN [ret |-> first, ftp |-> handle, log |-> <<"operation">>,
              cmds |-> CommandsSent(handle)]
        ELSE IF c # "ok"
        THEN [ret |-> "None", ftp |-> h2, log |-> <<"operation", "connect">>,
              cmds |-> CommandsSent(handle)]
        ELSE [ret |-> IF second = "raises" THEN "None" ELSE second, ftp |-> h2,
              log |-> <<"operation", "connect", "operation">>,
              cmds |-> CommandsSent(handle) + CommandsSent(h2)]

\* the early return of a method: nothing is called, nothing is sent
NoIO(handle, value) ==
    [ret |-> value, ftp |-> handle, log |-> <<>>, cmds |-> 0]

\* FtpConnection.get_data
get_data(handle, url, e1, c, e2) ==
    IF url.netloc # Host THEN NoIO(handle, "None")
    ELSE retry_on_disconnect(handle, e1, c, e2)

\* FtpConnection.ls: a None result becomes the empty list
ls(handle, url, e1, c, e2) ==
    IF url.netloc # Host THEN NoIO(handle, "no_urls")
    ELSE LET r == retry_on_disconnect(handle, e1, c, e2)
         IN  [r EXCEPT !.ret = IF @ = "None" THEN "no_urls" ELSE @]

\* FtpConnection.get_pdf_text: the URL's host is not compared with self.host;
\* a download of zero bytes returns None
get_pdf_text(handle, url, e1, c, e2) ==
    LET r == retry_on_disconnect(handle, e1, c, e2)
    IN  [r EXCEPT !.ret = IF @ = "empty" THEN "None" ELSE @]

\* FtpConnection.close: ret "raises" is an exception leaving close()
close(handle, q) ==
    IF handle = "None" THEN NoIO(handle, "None")
    ELSE CASE q = "ok" ->
                [ret |-> "None", ftp |-> "None", log |-> <<"quit">>, cmds |-> 1]
           [] q = "BrokenPipeError" ->
                [ret |-> "None", ftp |-> handle, log |-> <<"quit">>, cmds |-> 1]
           [] q = "raises" ->
                [ret |-> "raises", ftp |-> handle, log |-> <<"quit">>, cmds |-> 1]

\* the state a call on the connection does not touch
outside_ftp == <<vars, wh_vars, ext_vars, pipe_vars, cal_vars, links_vars, norm_vars, parse_vars>>

\* FtpConnection.__init__ has returned: connect() did not raise
FtpInit ==
    /\ ftp = "open"
    /\ ftp_call = [op |-> "__init__", url |-> [netloc |-> Host, path |-> ""],
                   ftp |-> "None"]
    /\ ftp_in = <<"ok", "ok", "ok">>
    /\ ftp_out = [ret |-> "None", ftp |-> "open", log |-> <<"connect">>,
                  cmds |-> 1]

GetData ==
    \E url \in Urls, e1 \in RetrieveOutcomes, c \in ConnectOutcomes,
       e2 \in RetrieveOutcomes :
        LET out == get_data(ftp, url, e1, c, e2)
        IN  /\ ftp_call' = [op |-> "get_data", url |-> url, ftp |-> ftp]
            /\ ftp_in' = <<e1, c, e2>>
            /\ ftp_out' = out
            /\ ftp' = out.ftp
            /\ UNCHANGED outside_ftp

Ls ==
    \E url \in Urls, e1 \in ListDirOutcomes, c \in ConnectOutcomes,
       e2 \in ListDirOutcomes :
        LET out == ls(ftp, url, e1, c, e2)
        IN  /\ ftp_call' = [op |-> "ls", url |-> url, ftp |-> ftp]
            /\ ftp_in' = <<e1, c, e2>>
            /\ ftp_out' = out
            /\ ftp' = out.ftp
            /\ UNCHANGED outside_ftp

GetPdfText ==
    \E url \in Urls, e1 \in PdfOutcomes, c \in ConnectOutcomes,
       e2 \in PdfOutcomes :
        LET out == get_pdf_text(ftp, url, e1, c, e2)
        IN  /\ ftp_call' = [op |-> "get_pdf_text", url |-> url, ftp |-> ftp]
            /\ ftp_in' = <<e1, c, e2>>
            /\ ftp_out' = out
            /\ ftp' = out.ftp
            /\ UNCHANGED outside_ftp

Close ==
    \E q \in QuitOutcomes :
        LET out == close(ftp, q)
        IN  /\ ftp_call' = [op |-> "close", ftp |-> ftp,
                              url |-> [netloc |-> Host, path |-> ""]]
            /\ ftp_in' = <<q, "ok", "ok">>
            /\ ftp_out' = out
            /\ ftp' = out.ftp
            /\ UNCHANGED outside_ftp

FtpNext == GetData \/ Ls \/ GetPdfText \/ Close

\* ---- get_bill_urls, parse_bill_xml, get_raw_bills_data ---------------------
\* (src/pipelines/flows/tlo_scraper/extract_functions.py)
Chambers ==
    <<"house_bills", "senate_bills", "house_joint_resolutions",
      "senate_joint_resolutions", "house_concurrent_resolutions",
      "senate_concurrent_resolutions", "house_resolutions",
      "senate_resolutions">>

max_errors == 5

MaxFolders == 2

MaxFiles == 2

MaxUrls == 8

\* base_path = f"ftp://ftp.legis.state.tx.us/bills/{leg_session}": every URL of
\* the traversal is built on it, or by ls on self.host
BaseUrl == [netloc |-> Host, path |-> "/bills/89R"]

\* the documents the server holds: a bill history, the error document of a
\* bill that does not exist, and a history whose vote counts are not numbers
DocKinds == {"bill", "does_not_exist", "bad_votes"}

\* every attempt of a call through _retry_on_disconnect failed
AttemptsFailed(handle, e1, c, e2) ==
    /\ operation(handle, e1) = "raises"
    /\ c # "ok" \/ e2 = "raises"

parse_bill_xml_sentinel_raises(xml_str, doc) ==
    CASE xml_str = "raises" -> "None"
      [] xml_str \in {"None", "empty"} -> "None"
      [] doc = "does_not_exist" -> "raises"
      [] doc = "bad_votes" -> "raises"
      [] OTHER -> "record"

\* parse_bill_xml: xml_str is what get_data gave; the result is None, the
\* bill_data dictionary ("record") or an exception ("raises")
parse_bill_xml(xml_str, doc) ==
    CASE xml_str = "raises" -> "None"
      [] xml_str \in {"None", "empty"} -> "None"
      [] doc = "does_not_exist" -> "None"
      [] doc = "bad_votes" -> "raises"
      [] OTHER -> "record"

\* get_raw_bills_data has built its FtpConnection and calls get_bill_urls
ExtInit ==
    /\ ext_pc = "get_bill_urls"
    /\ chamber = 1
    /\ folders = 0
    /\ bill_urls = 0
    /\ urls_error_count = 0
    /\ ls_failed = 0
    /\ fetched = 0
    /\ raw_bills = <<>>
    /\ error_count = 0
    /\ null_fetches = 0
    /\ item = [xml_str |-> "None", doc |-> "none", bill_data |-> "None"]

\* the calls of the traversal are accounted in its own variables
outside_ext == <<vars, wh_vars, ftp_call, ftp_in, ftp_out, pipe_vars, cal_vars, links_vars, norm_vars, parse_vars>>

\* the end of one chamber's iteration: the budget check unless the iteration
\* was left by continue, then the next chamber or the return of bill_urls
ChamberDone(checked, errors) ==
    IF checked /\ errors > max_errors
    THEN ext_pc' = "raised" /\ chamber' = chamber
    ELSE IF chamber = Len(Chambers)
    THEN ext_pc' = "bill_urls" /\ chamber' = chamber
    ELSE ext_pc' = ext_pc /\ chamber' = chamber + 1

\* range_folders = ftp_connection.ls(chamber_url)
ListChamber ==
    /\ ext_pc = "get_bill_urls"
    /\ folders = 0
    /\ \E e1 \in ListDirOutcomes, c \in ConnectOutcomes,
          e2 \in ListDirOutcomes, n \in 1..MaxFolders :
        LET out == ls(ftp, BaseUrl, e1, c, e2)
            range_folders == IF out.ret = "urls" THEN n ELSE 0
        IN  /\ ftp' = out.ftp
            /\ ls_failed' = ls_failed
                   + (IF AttemptsFailed(ftp, e1, c, e2) THEN 1 ELSE 0)
            /\ folders' = range_folders
            /\ IF out.ret = "raises" THEN ChamberDone(FALSE, urls_error_count)
               ELSE IF range_folders = 0
               THEN ChamberDone(TRUE, urls_error_count)
               ELSE ext_pc' = ext_pc /\ chamber' = chamber
            /\ UNCHANGED <<bill_urls, urls_error_count, loop_vars>>
            /\ UNCHANGED outside_ext

\* bill_xmls = ftp_connection.ls(folder_url); bill_urls.extend(bill_xmls)
ListFolder ==
    /\ ext_pc = "get_bill_urls"
    /\ folders > 0
    /\ \E e1 \in ListDirOutcomes, c \in ConnectOutcomes,
          e2 \in ListDirOutcomes, n \in 1..MaxFiles :
        LET out == ls(ftp, BaseUrl, e1, c, e2)
            bill_xmls == IF out.ret = "urls" THEN n ELSE 0
            errors == urls_error_count
                          + (IF out.ret = "raises" THEN 1 ELSE 0)
        IN  /\ bill_urls + bill_xmls <= MaxUrls
            /\ ftp' = out.ftp
            /\ ls_failed' = ls_failed
                   + (IF AttemptsFailed(ftp, e1, c, e2) THEN 1 ELSE 0)
            /\ bill_urls' = bill_urls + bill_xmls
            /\ urls_error_count' = errors
            /\ folders' = folders - 1
            /\ IF folders = 1 THEN ChamberDone(TRUE, errors)
               ELSE ext_pc' = ext_pc /\ chamber' = chamber
            /\ UNCHANGED loop_vars
            /\ UNCHANGED outside_ext

too_many_errors_at_the_limit(errors) == errors >= max_errors

\* if error_count > max_errors: raise
too_many_errors(errors) == errors > max_errors

\* get_bill_urls has returned: its locals are gone, the loop begins
StartLoop ==
    /\ ext_pc = "bill_urls"
    /\ ext_pc' = "bills"
    /\ chamber' = 1
    /\ urls_error_count' = 0
    /\ ls_failed' = 0
    /\ UNCHANGED <<ftp, folders, bill_urls, loop_vars>>
    /\ UNCHANGED outside_ext

\* one iteration of `for url in bill_urls`
FetchItem ==
    /\ ext_pc = "bills"
    /\ fetched < bill_urls
    /\ \E e1 \in RetrieveOutcomes, c \in ConnectOutcomes,
          e2 \in RetrieveOutcomes, doc \in DocKinds :
        LET out == get_data(ftp, BaseUrl, e1, c, e2)
            bill_data == parse_bill_xml(out.ret, doc)
            errors == error_count + (IF bill_data = "raises" THEN 1 ELSE 0)
        IN  /\ ftp' = out.ftp
            /\ fetched' = fetched + 1
            /\ raw_bills' = IF bill_data = "record"
                            THEN Append(raw_bills, fetched + 1)
                            ELSE raw_bills
            /\ error_count' = errors
            /\ null_fetches' = null_fetches
                   + (IF out.ret = "None" THEN 1 ELSE 0)
            /\ item' = [xml_str |-> out.ret,
                        doc |-> IF out.ret = "data" THEN doc ELSE "none",
                        bill_data |-> bill_data]
            /\ ext_pc' = IF too_many_errors(errors) THEN "raised" ELSE ext_pc
            /\ UNCHANGED walk_vars
            /\ UNCHANGED outside_ext

\* return pd.DataFrame(raw_bills)
ReturnRawBills ==
    /\ ext_pc = "bills"
    /\ fetched = bill_urls
    /\ ext_pc' = "returned"
    /\ UNCHANGED <<ftp, walk_vars, loop_vars>>
    /\ UNCHANGED outside_ext

ExtNext == ListChamber \/ ListFolder \/ StartLoop \/ FetchItem \/ ReturnRawBills

\* ---- get_committee_meetings_links -----------------------------------------
\* for chamber in ["H", "J", "S"]
LinkChambers == <<"H", "J", "S">>

\* the links of one chamber's page: at most MaxCommittees
MaxCommittees == 3

LinksInit ==
    /\ links_pc = "loop"
    /\ visited = <<>>
    /\ committee_meetings = <<>>
    /\ links_error_count = 0

outside_links == <<vars, wh_vars, ftp_vars, ext_vars, pipe_vars, cal_vars, norm_vars, parse_vars>>

chambers_over_budget_after_one(errors) == errors > 0

\* if error_count > max_errors: raise, with the default max_errors the
\* callers leave in place
chambers_over_budget(errors) == errors > max_errors

\* one iteration of the loop: extract_committee_meetings_links raises, or
\* returns the committees of the page, which are appended
VisitChamber ==
    /\ links_pc = "loop"
    /\ Len(visited) < Len(LinkChambers)
    /\ \E raises \in BOOLEAN, committees \in 0..MaxCommittees :
        LET this == LinkChambers[Len(visited) + 1]
            errors == links_error_count + (IF raises THEN 1 ELSE 0)
        IN  /\ raises => committees = 0
            /\ visited' = Append(visited, this)
            /\ committee_meetings' = committee_meetings \o
                   [i \in 1..committees |-> [chamber |-> this, link |-> i]]
            /\ links_error_count' = errors
            /\ links_pc' = IF chambers_over_budget(errors) THEN "raised"
                           ELSE links_pc
            /\ UNCHANGED outside_links

\* return pd.DataFrame(committee_meetings)
ReturnLinks ==
    /\ links_pc = "loop"
    /\ Len(visited) = Len(LinkChambers)
    /\ links_pc' = "returned"
    /\ UNCHANGED <<visited, committee_meetings, links_error_count>>
    /\ UNCHANGED outside_links

LinksNext == VisitChamber \/ ReturnLinks

\* ---- tx_leg_pipeline (src/pipelines/flows/tx_leg.py) ------------------------
\* a stage of the flow, the try block it stands in (0: none) and what the
\* block's handler does with an exception: print it and go on, or raise it
StageOf(name, try, handler) == [name |-> name, try |-> try, handler |-> handler]

Stages ==
    <<StageOf("committee_hearing_videos", 1, "print"),
      StageOf("committee_meetings", 2, "print"),
      StageOf("committee_meeting_bills", 2, "print"),
      StageOf("upcoming_committee_meetings", 3, "print"),
      StageOf("upcoming_committee_meeting_bills", 3, "print"),
      StageOf("get_raw_bills_data", 4, "raise"),
      StageOf("actions", 5, "print"),
      StageOf("authors", 5, "print"),
      StageOf("bills", 5, "print"),
      StageOf("committee_status", 5, "print"),
      StageOf("companions", 5, "print"),
      StageOf("complete_bills_list", 5, "print"),
      StageOf("links", 5, "print"),
      StageOf("subjects", 5, "print"),
      StageOf("versions", 5, "print"),
      StageOf("bill_stages", 6, "print"),
      StageOf("legiscan", 7, "print"),
      StageOf("download_google_sheets", 0, "none"),
      StageOf("upload_google_sheets", 0, "none"),
      StageOf("call2action", 0, "none")>>

\* the stages whose extraction counts failed items against max_errors
Budgeted == {"get_raw_bills_data", "bill_stages"}

\* the stages that write no table of the sink
NoSinkTable == {"get_raw_bills_data", "upload_google_sheets", "call2action"}

MaxFailed == 6

\* get_bill_stages, and get_raw_bills_data as the flow calls it: the items
\* are all gone through, then more than max_errors failures raise
budget_check(failed) == IF failed > max_errors THEN "raises" ELSE "ok"

\* the first stage after the try block of stage i
AfterBlock(i) ==
    LET later == {j \in i + 1..Len(Stages) : Stages[j].try # Stages[i].try}
    IN  IF later = {} THEN Len(Stages) + 1
        ELSE CHOOSE j \in later : \A k \in later : j <= k

\* the flow has its FtpConnection and its configuration
PipeInit ==
    /\ stage = 1
    /\ run_state = "running"
    /\ written = {}
    /\ exceeded = {}
    /\ ran_after = {}
    /\ written_after = {}

outside_pipe == <<vars, wh_vars, ftp_vars, ext_vars, cal_vars, links_vars, norm_vars, parse_vars>>

\* what one stage leaves behind, given how it ended
StageEnds(outcome, over_budget) ==
    LET s == Stages[stage]
        wrote == IF outcome = "ok" /\ s.name \notin NoSinkTable
                 THEN {s.name} ELSE {}
    IN  /\ written' = written \cup wrote
        /\ exceeded' = exceeded \cup (IF over_budget THEN {s.name} ELSE {})
        /\ ran_after' = ran_after \cup (IF exceeded # {} THEN {s.name} ELSE {})
        /\ written_after' = written_after
                                \cup (IF exceeded # {} THEN wrote ELSE {})
        /\ IF outcome = "ok"
           THEN /\ stage' = stage + 1
                /\ run_state' = run_state
           ELSE IF s.handler = "print"
           THEN /\ stage' = AfterBlock(stage)
                /\ run_state' = run_state
           ELSE /\ stage' = stage
                /\ run_state' = "aborted"
        /\ UNCHANGED outside_pipe

\* a stage with an error budget: failed of its items fail
RunBudgetedStage ==
    /\ run_state = "running"
    /\ stage <= Len(Stages)
    /\ Stages[stage].name \in Budgeted
    /\ \E failed \in 0..MaxFailed :
        StageEnds(budget_check(failed), budget_check(failed) = "raises")

\* any other stage: it writes its table, or raises before it does
RunStage ==
    /\ run_state = "running"
    /\ stage <= Len(Stages)
    /\ Stages[stage].name \notin Budgeted
    /\ \E outcome \in {"ok", "raises"} : StageEnds(outcome, FALSE)

\* the flow returns after its last stage
FinishRun ==
    /\ run_state = "running"
    /\ stage = Len(Stages) + 1
    /\ run_state' = "finished"
    /\ UNCHANGED <<stage, written, exceeded, ran_after, written_after>>
    /\ UNCHANGED outside_pipe

PipeNext == RunBudgetedStage \/ RunStage \/ FinishRun

\* ---- HouseCalendarParser (src/parsers/calendars/house_calendar_parser.py) ---
\* A text is the sequence of the words of an element's text, as the document
\* spells them; the whitespace between them is what \s+ collapses.
Words ==
    {"Pre-Filed", "Prefiled", "Amendments", "Congratulatory", "Memorial",
     "Supplemental", "Daily", "House", "Calendar", "Consent", "Resolutions",
     "by", "Monday,"}

MaxWords == 3

Texts == UNION {[1..n -> Words] : n \in 0..MaxWords}

\* str.upper() and str.lower() of a word
upper(w) ==
    CASE w = "Pre-Filed" -> "PRE-FILED"
      [] w = "Prefiled" -> "PREFILED"
      [] w = "Amendments" -> "AMENDMENTS"
      [] w = "Congratulatory" -> "CONGRATULATORY"
      [] w = "Memorial" -> "MEMORIAL"
      [] w = "Supplemental" -> "SUPPLEMENTAL"
      [] w = "Daily" -> "DAILY"
      [] w = "House" -> "HOUSE"
      [] w = "Calendar" -> "CALENDAR"
      [] w = "Consent" -> "CONSENT"
      [] w = "Resolutions" -> "RESOLUTIONS"
      [] w = "by" -> "BY"
      [] w = "Monday," -> "MONDAY,"

lower(w) ==
    CASE w = "Pre-Filed" -> "pre-filed"
      [] w = "Prefiled" -> "prefiled"
      [] w = "Amendments" -> "amendments"
      [] w = "Congratulatory" -> "congratulatory"
      [] w = "Memorial" -> "memorial"
      [] w = "Supplemental" -> "supplemental"
      [] w = "Daily" -> "daily"
      [] w = "House" -> "house"
      [] w = "Calendar" -> "calendar"
      [] w = "Consent" -> "consent"
      [] w = "Resolutions" -> "resolutions"
      [] w = "by" -> "by"
      [] w = "Monday," -> "monday,"

\* len() of a word
WordLen(w) ==
    CASE w \in {"by"} -> 2
      [] w \in {"Daily", "House"} -> 5
      [] w \in {"Consent", "Monday,"} -> 7
      [] w \in {"Memorial", "Calendar", "Prefiled"} -> 8
      [] w = "Pre-Filed" -> 9
      [] w = "Amendments" -> 10
      [] w = "Resolutions" -> 11
      [] w = "Supplemental" -> 12
      [] w = "Congratulatory" -> 14

RECURSIVE TextLen(_)
\* len() of a text: its words and one blank between two of them
TextLen(text) ==
    IF text = <<>> THEN 0
    ELSE WordLen(Head(text)) + (IF Len(text) > 1 THEN 1 ELSE 0)
             + TextLen(Tail(text))

\* keyword in word, for the keywords the parser looks for
Occurs(keyword, word) ==
    \/ keyword = word
    \/ <<keyword, word>> \in {<<"AMENDMENT", "AMENDMENTS">>,
                              <<"amendment", "amendments">>,
                              <<"resolution", "resolutions">>}

\* keyword in text_lower
InLower(keyword, text) ==
    \E i \in DOMAIN text : Occurs(keyword, lower(text[i]))

\* re.match(r"^\w+day,", text)
LooksLikeDate(text) == text # <<>> /\ text[1] = "Monday,"

RECURSIVE re_match(_, _)
\* re.match of a pattern .*K1.*K2.*: the keywords occur in this order; a
\* pattern is the sequence of its keywords, each a set of alternatives
re_match(pattern, text) ==
    IF pattern = <<>> THEN TRUE
    ELSE IF text = <<>> THEN FALSE
    ELSE IF \E k \in Head(pattern) : Occurs(k, Head(text))
    THEN re_match(Tail(pattern), Tail(text))
    ELSE re_match(pattern, Tail(text))

PreFiledAmendments == <<"LIST", "OF", "PRE-FILED", "AMENDMENTS">>

CongratulatoryMemorial == <<"CONGRATULATORY", "AND", "MEMORIAL", "CALENDAR">>

SupplementalHouse == <<"SUPPLEMENTAL", "HOUSE", "CALENDAR">>

DailyHouse == <<"DAILY", "HOUSE", "CALENDAR">>

calendar_patterns ==
    <<[pattern |-> <<{"PRE-FILED", "PREFILED"}, {"AMENDMENT"}>>,
       label |-> PreFiledAmendments],
      [pattern |-> <<{"CONGRATULATORY"}, {"MEMORIAL"}, {"CALENDAR"}>>,
       label |-> CongratulatoryMemorial],
      [pattern |-> <<{"SUPPLEMENTAL"}, {"HOUSE"}, {"CALENDAR"}>>,
       label |-> SupplementalHouse],
      [pattern |-> <<{"DAILY"}, {"HOUSE"}, {"CALENDAR"}>>,
       label |-> DailyHouse],
      [pattern |-> <<{"HOUSE"}, {"CALENDAR"}>>, label |-> DailyHouse],
      [pattern |-> <<{"AMENDMENT"}>>, label |-> PreFiledAmendments]>>

\* re.sub(r"\s+", " ", text).strip().upper()
cleaned(text) == [i \in DOMAIN text |-> upper(text[i])]

RECURSIVE first_match(_, _)
\* for pattern, normalized_type in calendar_patterns.items(): the text itself
\* is returned when the loop ends without a match
first_match(i, text) ==
    IF i > Len(calendar_patterns) THEN text
    ELSE IF re_match(calendar_patterns[i].pattern, text)
    THEN calendar_patterns[i].label
    ELSE first_match(i + 1, text)

RECURSIVE last_match(_, _)
last_match(i, text) ==
    IF i < 1 THEN text
    ELSE IF re_match(calendar_patterns[i].pattern, text)
    THEN calendar_patterns[i].label
    ELSE last_match(i - 1, text)

normalize_calendar_type_last_rule_wins(text) ==
    last_match(Len(calendar_patterns), cleaned(text))

\* HouseCalendarParser._normalize_calendar_type
normalize_calendar_type(text) == first_match(1, cleaned(text))

\* strategy 1 takes the line of the second <p>'s span
Strategy1Takes(text) == TextLen(text) > 5

\* strategy 2 takes the text of a centered element
Strategy2Takes(text) ==
    /\ \E k \in {"calendar", "amendment", "resolution"} : InLower(k, text)
    /\ TextLen(text) > 5
    /\ ~LooksLikeDate(text)

\* strategy 3 takes the text of any span, td or div
Strategy3Takes(text) ==
    /\ InLower("calendar", text) \/ InLower("amendment", text)
    /\ TextLen(text) > 5
    /\ ~LooksLikeDate(text)
    /\ ~InLower("by", text)

\* parse() has been given a document
CalInit ==
    /\ cal_pc = "strategy1"
    /\ cal_text = <<>>
    /\ cal_by = "default"
    /\ calendar_type = <<>>

outside_cal == <<vars, wh_vars, ftp_vars, ext_vars, pipe_vars, links_vars, norm_vars, parse_vars>>

\* strategy 1 on a document whose second <p> holds text: it returns the
\* normalized type, or leaves the document to strategy 2
Strategy1 ==
    /\ cal_pc = "strategy1"
    /\ \E text \in Texts :
        IF Strategy1Takes(text)
        THEN /\ cal_pc' = "returned"
             /\ cal_text' = text
             /\ cal_by' = "strategy1"
             /\ calendar_type' = normalize_calendar_type(text)
        ELSE /\ cal_pc' = "strategy2"
             /\ UNCHANGED <<cal_text, cal_by, calendar_type>>
    /\ UNCHANGED outside_cal

\* strategy 2 on the first centered element it takes, if there is one
Strategy2 ==
    /\ cal_pc = "strategy2"
    /\ \E text \in Texts :
        IF Strategy2Takes(text)
        THEN /\ cal_pc' = "returned"
             /\ cal_text' = text
             /\ cal_by' = "strategy2"
             /\ calendar_type' = normalize_calendar_type(text)
        ELSE /\ cal_pc' = "strategy3"
             /\ UNCHANGED <<cal_text, cal_by, calendar_type>>
    /\ UNCHANGED outside_cal

\* strategy 3 on the first element it takes; with none the default is
\* returned
Strategy3 ==
    /\ cal_pc = "strategy3"
    /\ \E text \in Texts :
        IF Strategy3Takes(text)
        THEN /\ cal_text' = text
             /\ cal_by' = "strategy3"
             /\ calendar_type' = normalize_calendar_type(text)
        ELSE /\ cal_text' = cal_text
             /\ cal_by' = cal_by
             /\ calendar_type' = DailyHouse
    /\ cal_pc' = "returned"
    /\ UNCHANGED outside_cal

\* an exception inside the try block: the default is returned
ParseFails ==
    /\ cal_pc # "returned"
    /\ cal_pc' = "returned"
    /\ cal_text' = cal_text
    /\ cal_by' = cal_by
    /\ calendar_type' = DailyHouse
    /\ UNCHANGED outside_cal

CalNext == Strategy1 \/ Strategy2 \/ Strategy3 \/ ParseFails

\* ---- identifiers: clean_bill_id, the transforms, the spacing rule ----------
\* A string is the sequence of its characters.
CapitalLetters == {"H", "B", "S", "R"}

Digits == {"0", "1", "2", "8", "9"}

\* str.replace(old, ""), for a one-character old
remove(str, old) == SelectSeq(str, LAMBDA ch : ch # old)

RECURSIVE split(_, _)
\* str.split(sep), for a two-character sep: the list of the parts
split(str, sep) ==
    LET at == {i \in 1..(Len(str) - 1) : SubSeq(str, i, i + 1) = sep}
    IN  IF at = {} THEN <<str>>
        ELSE LET i == CHOOSE j \in at : \A k \in at : j <= k
             IN  <<SubSeq(str, 1, i - 1)>>
                     \o split(SubSeq(str, i + 2, Len(str)), sep)

\* the outcome of a call: an exception, or the value returned
Raises == [raises |-> TRUE, ret |-> <<>>]

Returns(value) == [raises |-> FALSE, ret |-> value]

clean_bill_id_keeps_spaces(bill_id) ==
    LET parts == split(bill_id, <<")", " ">>)
    IN  IF Len(parts) # 2 THEN Raises
        ELSE Returns(<<parts[2], remove(parts[1], "(")>>)

\* session_part, bill_part = bill_id.split(") "): ValueError unless there are
\* exactly two parts; then (bill_part without blanks, session_part without
\* the parenthesis)
clean_bill_id(bill_id) ==
    LET parts == split(bill_id, <<")", " ">>)
    IN  IF Len(parts) # 2 THEN Raises
        ELSE Returns(<<remove(parts[2], " "), remove(parts[1], "(")>>)

RECURSIVE re_sub_spacing(_)
\* re.sub(r"([A-Z]+)(\d+)", r"\1 \2", str): a blank goes in wherever a
\* capital letter is followed by a digit
re_sub_spacing(str) ==
    IF Len(str) < 2 THEN str
    ELSE IF Head(str) \in CapitalLetters /\ str[2] \in Digits
    THEN <<Head(str), " ">> \o re_sub_spacing(Tail(str))
    ELSE <<Head(str)>> \o re_sub_spacing(Tail(str))

\* the spacing of one match of _extract_bill_ids_from_text
format_bill_id(bill) == re_sub_spacing(remove(bill, " "))

\* the identifiers of the raw bills: well formed, without a session, without
\* the blank after the parenthesis
RawBillIds ==
    {<<"8", "9", "(", "R", ")", " ", "H", "B", " ", "1">>,
     <<"8", "9", "(", "R", ")", " ", "H", "B", " ", "2">>,
     <<"8", "9", "(", "1", ")", " ", "S", "B", " ", "1">>,
     <<"H", "B", " ", "1">>,
     <<"8", "9", "(", "R", ")", "H", "B", " ", "1">>}

MaxBills == 3

\* the bill_id column of raw_bills_df
RawBillColumns == UNION {[1..n -> RawBillIds] : n \in 0..MaxBills}

\* type prefixes and numbers of identifiers
MaxPrefix == 2

MaxDigits == 2

Prefixes == UNION {[1..n -> CapitalLetters] : n \in 1..MaxPrefix}

Numbers == UNION {[1..n -> Digits] : n \in 1..MaxDigits}

\* every row has one author and no coauthor
Authors == <<"Author">>

RECURSIVE authors_rows(_)
authors_rows(raw_bills_df) ==
    IF raw_bills_df = <<>> THEN <<>>
    ELSE LET cleaned_data == clean_bill_id(Head(raw_bills_df))
         IN  (IF cleaned_data.raises THEN <<>>
              ELSE [i \in DOMAIN Authors |->
                       [bill_id |-> cleaned_data.ret[1], leg_id |-> cleaned_data.ret[2],
                        author |-> Authors[i]]])
                 \o authors_rows(Tail(raw_bills_df))

\* one row per author of every item whose identifier clean_bill_id accepts;
\* the except branch of the loop skips the others
get_authors_data(raw_bills_df) == Returns(authors_rows(raw_bills_df))

DigitChars == <<"0", "1", "2", "3", "4", "5", "6", "7", "8", "9">>

\* int() of one digit
DigitValue(ch) == (CHOOSE i \in DOMAIN DigitChars : DigitChars[i] = ch) - 1

RECURSIVE int(_)
\* int() of a string of digits
int(str) ==
    IF str = <<>> THEN 0
    ELSE 10 * int(SubSeq(str, 1, Len(str) - 1)) + DigitValue(str[Len(str)])

RECURSIVE str_of(_)
\* str() of a number
str_of(i) ==
    IF i < 10 THEN <<DigitChars[i + 1]>>
    ELSE str_of(i \div 10) \o <<DigitChars[(i % 10) + 1]>>

\* str.extract(r"([A-Z]+)(\d+)") of a cleaned_data identifier
PrefixOf(bill_number) ==
    SelectSeq(bill_number, LAMBDA ch : ch \in CapitalLetters)

NumberOf(bill_number) == int(SelectSeq(bill_number, LAMBDA ch : ch \in Digits))

\* sub_group["number"].max() of one session and prefix
MaxNumber(cleaned_data, leg_id, prefix) ==
    MaxOf({NumberOf(cleaned_data[i].ret[1]) :
              i \in {k \in DOMAIN cleaned_data :
                        /\ cleaned_data[k].ret[2] = leg_id
                        /\ PrefixOf(cleaned_data[k].ret[1]) = prefix}})

\* the loop over raw_bills_df has no try: the first identifier clean_bill_id
\* rejects ends the call; pd.concat of no frames raises as well; otherwise
\* the rows are prefix1 .. prefix<max> for every session and prefix
get_complete_bills_list(raw_bills_df) ==
    LET cleaned_data == [i \in DOMAIN raw_bills_df |->
                       clean_bill_id(raw_bills_df[i])]
    IN  IF \E i \in DOMAIN cleaned_data : cleaned_data[i].raises THEN Raises
        ELSE IF cleaned_data = <<>> THEN Raises
        ELSE Returns(UNION {
                 {[bill_id |-> PrefixOf(cleaned_data[i].ret[1]) \o str_of(n),
                   leg_id |-> cleaned_data[i].ret[2]] :
                      n \in 1..MaxNumber(cleaned_data, cleaned_data[i].ret[2],
                                         PrefixOf(cleaned_data[i].ret[1]))} :
                 i \in DOMAIN cleaned_data})

NormInit ==
    /\ norm_op = "none"
    /\ norm_in = <<>>
    /\ norm_out = Returns(<<>>)

outside_norm == <<vars, wh_vars, ftp_vars, ext_vars, pipe_vars, cal_vars, links_vars, parse_vars>>

CleanBillId ==
    /\ norm_op = "none"
    /\ \E bill_id \in RawBillIds :
        /\ norm_op' = "clean_bill_id"
        /\ norm_in' = bill_id
        /\ norm_out' = clean_bill_id(bill_id)
    /\ UNCHANGED outside_norm

\* the page parser on a link to prefix + number, then the normalizer's
\* removal of blanks on the result
FormatBillId ==
    /\ norm_op = "none"
    /\ \E prefix \in Prefixes, number \in Numbers :
        /\ norm_op' = "format_bill_id"
        /\ norm_in' = prefix \o number
        /\ norm_out' = Returns(format_bill_id(prefix \o number))
    /\ UNCHANGED outside_norm

GetAuthorsData ==
    /\ norm_op = "none"
    /\ \E raw_bills_df \in RawBillColumns :
        /\ norm_op' = "get_authors_data"
        /\ norm_in' = raw_bills_df
        /\ norm_out' = get_authors_data(raw_bills_df)
    /\ UNCHANGED outside_norm

GetCompleteBillsList ==
    /\ norm_op = "none"
    /\ \E raw_bills_df \in RawBillColumns :
        /\ norm_op' = "get_complete_bills_list"
        /\ norm_in' = raw_bills_df
        /\ norm_out' = get_complete_bills_list(raw_bills_df)
    /\ UNCHANGED outside_norm

NormNext == CleanBillId \/ FormatBillId \/ GetAuthorsData \/ GetCompleteBillsList

\* ---- HouseCalendarParser.parse: date and subcalendars ----------------------
\* The documents have the usual layout: the title is the one line of the span
\* in the second <p>, long enough for strategy 1 to take it.
Titles ==
    {text \in {<<"Prefiled", "Amendments", "Calendar">>,
               <<"Pre-Filed", "Amendments">>,
               <<"Congratulatory", "Memorial", "Calendar">>,
               <<"Supplemental", "House", "Calendar">>,
               <<"Daily", "House", "Calendar">>,
               <<"House", "Calendar">>,
               <<"Consent", "Calendar">>,
               <<"Memorial", "Resolutions">>} : Strategy1Takes(text)}

\* the date line of a document: none, or weekday, month name, day and year
NoDateLine == [present |-> FALSE, month_name |-> "", day |-> 0, year |-> 0]

DateLine(month_name, day, year) ==
    [present |-> TRUE, month_name |-> month_name, day |-> day, year |-> year]

DateLines ==
    {NoDateLine, DateLine("August", 25, 2025), DateLine("Sextilis", 30, 2025),
     DateLine("February", 30, 2025)}

\* month_map.get(month_name, 1)
month_map(month_name) ==
    CASE month_name = "February" -> 2
      [] month_name = "August" -> 8
      [] OTHER -> 1

\* the days of a month of a year that is not a leap year
DaysIn(month) == IF month = 2 THEN 28 ELSE IF month \in {4, 6, 9, 11} THEN 30 ELSE 31

\* _extract_calendar_date: datetime.now() without a date line; datetime(year,
\* month, day) raises ValueError for a day the month does not have
extract_calendar_date(line) ==
    IF ~line.present THEN Returns("now")
    ELSE IF line.day < 1 \/ line.day > DaysIn(month_map(line.month_name))
    THEN Raises
    ELSE Returns("date")

\* the body of a document is the sequence of what the parser looks for in it:
\* headers between rows of ten asterisks, bill type headers, links to bills
Header(name) == [kind |-> "header", name |-> name, link |-> <<>>]

BillType(name) == [kind |-> "bill_type", name |-> name, link |-> <<>>]

Link(bill) == [kind |-> "link", name |-> "", link |-> bill]

DailySections == {"MAJOR STATE CALENDAR", "GENERAL STATE CALENDAR"}

Tokens ==
    {Header("MAJOR STATE CALENDAR"), Header("GENERAL STATE CALENDAR"),
     Header("CONGRATULATORY RESOLUTIONS"),
     BillType("HOUSE BILLS"), BillType("SENATE BILLS"),
     Link(<<"H", "B", "1">>), Link(<<"S", "B", " ", "2">>)}

MaxTokens == 3

Bodies == UNION {[1..n -> Tokens] : n \in 0..MaxTokens}

\* bill_ids of _extract_bill_ids_from_text: every match, spaced
extract_bill_ids_from_text(text) ==
    LET bill_matches == SelectSeq(text, LAMBDA t : t.kind = "link")
    IN  [i \in DOMAIN bill_matches |-> format_bill_id(bill_matches[i].link)]

Subcalendar(reading_count, subcalendar_type, bill_ids) ==
    [reading_count |-> reading_count, subcalendar_type |-> subcalendar_type,
     bill_ids |-> bill_ids]

\* the positions of the tokens of some kinds and names
Positions(text, kinds, names) ==
    {i \in DOMAIN text : text[i].kind \in kinds /\ text[i].name \in names}

\* the text after position i up to the next of the positions stops
ContentAfter(text, i, stops) ==
    LET later == {j \in stops : j > i}
        content_end == IF later = {} THEN Len(text) + 1 ELSE MinOf(later)
    IN  SubSeq(text, i + 1, content_end - 1)

\* the members of a set of positions, in order
RECURSIVE Ascending(_)
Ascending(S) ==
    IF S = {} THEN <<>> ELSE <<MinOf(S)>> \o Ascending(S \ {MinOf(S)})

RECURSIVE Flatten(_)
Flatten(lists) ==
    IF lists = <<>> THEN <<>> ELSE Head(lists) \o Flatten(Tail(lists))

HeaderNames == {t.name : t \in {u \in Tokens : u.kind = "header"}}

BillTypeNames == {t.name : t \in {u \in Tokens : u.kind = "bill_type"}}

extract_prefiled_amendments_subcalendars_first_match(text) ==
    LET bill_ids == extract_bill_ids_from_text(text)
    IN  IF bill_ids # <<>> THEN <<Subcalendar(1, "", <<Head(bill_ids)>>)>>
        ELSE <<>>

\* _extract_prefiled_amendments_subcalendars
extract_prefiled_amendments_subcalendars(text) ==
    LET bill_ids == extract_bill_ids_from_text(text)
    IN  IF bill_ids # <<>> THEN <<Subcalendar(1, "", bill_ids)>>
        ELSE <<>>

\* _extract_memorial_calendar_subcalendars: for every header, the content
\* after the first header of that name up to the next header
extract_memorial_calendar_subcalendars(text) ==
    LET sections == Ascending(Positions(text, {"header"}, HeaderNames))
    IN  Flatten([k \in DOMAIN sections |->
            LET section_name == text[sections[k]].name
                section_match ==
                    MinOf(Positions(text, {"header"}, {section_name}))
                bill_ids == extract_bill_ids_from_text(
                    ContentAfter(text, section_match,
                                 Positions(text, {"header"}, HeaderNames)))
            IN  IF bill_ids # <<>>
                THEN <<Subcalendar(1, section_name, bill_ids)>>
                ELSE <<>>])

\* _parse_bill_type_sections: for every bill type, in the order of its first
\* header, the content after that header up to the next bill type header
parse_bill_type_sections(section_content) ==
    LET headers == Positions(section_content, {"bill_type"}, BillTypeNames)
        firsts == Ascending({MinOf(Positions(section_content, {"bill_type"},
                                             {name})) :
                     name \in {section_content[i].name : i \in headers}})
    IN  [k \in DOMAIN firsts |->
            extract_bill_ids_from_text(
                ContentAfter(section_content, firsts[k], headers))]

\* _extract_daily_calendar_subcalendars: the document split at the two
\* calendar headers, one subcalendar for every bill type section with bills
extract_daily_calendar_subcalendars(text) ==
    LET splits == Positions(text, {"header"}, DailySections)
        parts == Ascending(splits)
    IN  Flatten([k \in DOMAIN parts |->
            LET bill_type_sections ==
                    parse_bill_type_sections(
                        ContentAfter(text, parts[k], splits))
            IN  Flatten([j \in DOMAIN bill_type_sections |->
                    IF bill_type_sections[j] # <<>>
                    THEN <<Subcalendar(2, text[parts[k]].name,
                                       bill_type_sections[j])>>
                    ELSE <<>>])])

\* needle in haystack, for texts as sequences of words
Contains(haystack, needle) ==
    \E i \in 0..(Len(haystack) - Len(needle)) :
        SubSeq(haystack, i + 1, i + Len(needle)) = needle

\* self._extract_calendar_type(data) on these documents
extract_calendar_type(document) == normalize_calendar_type(document.title)

extract_subcalendars_memorial_as_daily(document) ==
    LET type == extract_calendar_type(document)
    IN  IF Contains(type, <<"PRE-FILED", "AMENDMENTS">>)
        THEN extract_prefiled_amendments_subcalendars(document.body)
        ELSE extract_daily_calendar_subcalendars(document.body)

\* _extract_subcalendars
extract_subcalendars(document) ==
    LET type == extract_calendar_type(document)
    IN  IF Contains(type, <<"PRE-FILED", "AMENDMENTS">>)
        THEN extract_prefiled_amendments_subcalendars(document.body)
        ELSE IF Contains(type, CongratulatoryMemorial)
        THEN extract_memorial_calendar_subcalendars(document.body)
        ELSE extract_daily_calendar_subcalendars(document.body)

NoCalendar ==
    [calendar_type |-> <<>>, calendar_date |-> "none", subcalendars |-> <<>>]

ParseInit ==
    /\ parse_pc = "start"
    /\ data = [title |-> <<>>, date |-> NoDateLine, body |-> <<>>]
    /\ calendar = NoCalendar

outside_parse == <<vars, wh_vars, ftp_vars, ext_vars, pipe_vars, cal_vars, links_vars, norm_vars>>

\* parse(data): the type, the date, the subcalendars; an exception of
\* _extract_calendar_date is not caught
Parse ==
    /\ parse_pc = "start"
    /\ \E title \in Titles, line \in DateLines, body \in Bodies :
        LET document == [title |-> title, date |-> line, body |-> body]
            calendar_date == extract_calendar_date(line)
        IN  /\ data' = document
            /\ IF calendar_date.raises
               THEN /\ parse_pc' = "raised"
                    /\ calendar' = NoCalendar
               ELSE /\ parse_pc' = "returned"
                    /\ calendar' =
                           [calendar_type |-> extract_calendar_type(document),
                            calendar_date |-> calendar_date.ret,
                            subcalendars |-> extract_subcalendars(document)]
    /\ UNCHANGED outside_parse

ParseNext == Parse

\* the reconciliation variables while another component is exercised
MergeIdle ==
    /\ clock = 0
    /\ hist = NoTable
    /\ snap = Table({"bill_id"}, EmptyBag)
    /\ prev = NoTable
    /\ run_time = 0

all_vars == <<vars, wh_vars, ftp_vars, ext_vars, pipe_vars, cal_vars, links_vars, norm_vars, parse_vars>>

\* every component at its start, the stored table absent or empty
InitAll == Init /\ WhInit /\ FtpInit /\ ExtInit /\ PipeInit /\ CalInit /\ LinksInit /\ NormInit /\ ParseInit

\* every component at its start, no reconciliation under way
InitIdle == MergeIdle /\ WhInit /\ FtpInit /\ ExtInit /\ PipeInit /\ CalInit /\ LinksInit /\ NormInit /\ ParseInit

\* the reconciliation task run again and again as the clock advances
Spec == InitAll /\ [][Next]_all_vars

\* the same with the actions task, which drops duplicate rows
SpecActions == InitAll /\ [][NextActions]_all_vars

\* the same snapshots given to the in-memory merge and to the warehouse path
SpecReconcilers == InitIdle /\ [][NextBoth]_all_vars

\* any sequence of calls on one FtpConnection
SpecFtp == InitIdle /\ [][FtpNext]_all_vars

\* one run of the flow tx_leg_pipeline
SpecPipeline == InitIdle /\ [][PipeNext]_all_vars

\* _extract_calendar_type on any document
SpecCalendar == InitIdle /\ [][CalNext]_all_vars

\* one call of clean_bill_id, of the parser's spacing rule or of a transform
SpecNormalizer == InitIdle /\ [][NormNext]_all_vars

\* one call of HouseCalendarParser.parse
SpecParse == InitIdle /\ [][ParseNext]_all_vars

\* one call of get_committee_meetings_links
SpecLinks == InitIdle /\ [][LinksNext]_all_vars

\* one call of get_raw_bills_data, from the traversal to its return or raise
SpecExtract == InitIdle /\ [][ExtNext]_all_vars

\* ---- vocabulary of the properties ----------------------------------------
RowsOf(df) == DOMAIN df.rows

Cell(r, c) == IF c \in DOMAIN r THEN r[c] ELSE NA

BusinessColumns(r) == (DOMAIN r) \ TimestampColumns

AgreeOn(r1, r2, cols) == \A c \in cols : Cell(r1, c) = Cell(r2, c)

Conform(r, cols) == [c \in cols |-> Cell(r, c)]

WithoutLastSeen(r) == [c \in (DOMAIN r) \ {"last_seen_at"} |-> r[c]]

IsRunStep == clock' = clock

HasRows(df) == df.present /\ Len_df(df) > 0

\* the latest run took the three-partition path
BothNonEmpty == HasRows(prev) /\ Len_df(snap) > 0

\* C1: merging the same snapshot S into merge(H,S) gives the same rows (same
\* count, same business values, same first_seen_at); only last_seen_at of the
\* rows matched by S may differ, and it never decreases.
SameExceptLastSeen(M1, M2, S) ==
    /\ M1.present = M2.present
    /\ Len_df(M1) = Len_df(M2)
    /\ MapRows(WithoutLastSeen, M1.rows) = MapRows(WithoutLastSeen, M2.rows)
    /\ \A r2 \in RowsOf(M2) :
          \E r1 \in RowsOf(M1) :
              /\ WithoutLastSeen(r1) = WithoutLastSeen(r2)
              /\ r1["last_seen_at"] <= r2["last_seen_at"]
    /\ \A r1 \in RowsOf(M1) :
          (\A s \in RowsOf(S) : ~AgreeOn(s, r1, S.cols))
              => CopiesIn(r1, M2.rows) = CopiesIn(r1, M1.rows)

MergeIdempotence ==
    [][(IsRunStep /\ snap' = snap) => SameExceptLastSeen(hist, hist', snap)]_vars

\* C2: every row of the history given to a run is in the run's output with
\* all of its non-timestamp values (a column the output lacks reads as null).
HistoryMonotonicity ==
    [][IsRunStep =>
          \A h \in RowsOf(hist) :
              \E r \in RowsOf(hist') : AgreeOn(h, r, BusinessColumns(h))]_vars

\* C3: every row of every reachable history has first_seen_at <= last_seen_at.
TimestampInvariant ==
    \A r \in RowsOf(hist) : r["first_seen_at"] <= r["last_seen_at"]

\* a matched row whose window has opened, next to a row that stayed behind
TimestampInvariantWitness ==
    /\ BothNonEmpty
    /\ \E r \in RowsOf(hist) : r["first_seen_at"] < r["last_seen_at"]
    /\ \E r \in RowsOf(hist) : r["last_seen_at"] < run_time

InSnapshot(r, S) == \E s \in RowsOf(S) : AgreeOn(s, r, S.cols)

SameBusinessRow(s, h) ==
    /\ DOMAIN s = BusinessColumns(h)
    /\ AgreeOn(s, h, DOMAIN s)

NullSafeMatching ==
    BothNonEmpty =>
      /\ \A r \in RowsOf(hist) : \A c \in DOMAIN r :
            c \notin TimestampColumns => r[c] # placeholder
      /\ \A s \in RowsOf(snap) :
            LET Twins == {h \in RowsOf(prev) : SameBusinessRow(s, h)}
                Out == {r \in RowsOf(hist) : SameBusinessRow(s, r)}
            IN  Twins # {} =>
                  /\ Out # {}
                  /\ \A r \in Out :
                        /\ r["last_seen_at"] = run_time
                        /\ \E h \in Twins :
                              r["first_seen_at"] = h["first_seen_at"]
                  /\ \A h \in Twins :
                        CopiesIn(s @@ [first_seen_at |-> h["first_seen_at"],
                                       last_seen_at |-> run_time], hist.rows)
                            >= CopiesIn(s, snap.rows) * CopiesIn(h, prev.rows)

\* a row with a null comment was seen in an earlier minute and matched again
NullSafeMatchingWitness ==
    /\ BothNonEmpty
    /\ \E s \in RowsOf(snap), h \in RowsOf(prev) :
          /\ SameBusinessRow(s, h)
          /\ "comment" \in DOMAIN s
          /\ s["comment"] = NA
          /\ h["first_seen_at"] < run_time
          /\ Len_df(hist) = Len_df(prev)
          /\ (s @@ [first_seen_at |-> h["first_seen_at"],
                    last_seen_at |-> run_time]) \in RowsOf(hist)

\* C7: with a column on one side only, the output carries the union of both
\* column sets, null-filled for the rows of the side that lacked the column.
SchemaDriftUnion ==
    BothNonEmpty =>
      /\ hist.cols = snap.cols \cup prev.cols
      /\ \A r \in RowsOf(hist) : \A c \in prev.cols \ (snap.cols \cup TimestampColumns) :
            r["first_seen_at"] = run_time => r[c] = NA
      /\ \A r \in RowsOf(hist) : \A c \in snap.cols \ prev.cols :
            r["last_seen_at"] < run_time => r[c] = NA

\* C8: a snapshot row is matched to a history row iff they agree on every
\* non-timestamp column of the unioned column set (a missing column is null).
FullAgree(s, h) ==
    AgreeOn(s, h, (DOMAIN s) \cup BusinessColumns(h))

RowIdentityFullTuple ==
    BothNonEmpty =>
      \A s \in RowsOf(snap) :
          LET Twins == {h \in RowsOf(prev) : FullAgree(s, h)}
              Out == {r \in RowsOf(hist) : AgreeOn(r, s, snap.cols)
                                           /\ r["last_seen_at"] = run_time}
          IN  /\ Out # {}
              /\ Twins = {} => \E r \in Out : r["first_seen_at"] = run_time
              /\ Twins # {} =>
                    \A r \in Out : \E h \in Twins :
                        r["first_seen_at"] = h["first_seen_at"]

\* C9: with an empty snapshot the run returns the history exactly as given.
EmptySnapshotReturnsHistory ==
    Len_df(snap) = 0 => hist = prev

\* an empty snapshot arrived after the history had collected rows
EmptySnapshotReturnsHistoryWitness ==
    /\ Len_df(snap) = 0
    /\ HasRows(prev)
    /\ hist = prev
    /\ run_time < FloorMin(clock)

\* C10: with no history rows and a non-empty snapshot, the output has exactly
\* the snapshot's rows, each stamped first_seen_at = last_seen_at = now, the
\* current time truncated to the minute.
TruncatedToMinute(t, now) ==
    /\ t % TicksPerMinute = 0
    /\ t <= now
    /\ now < t + TicksPerMinute

FirstRunStampsSnapshot ==
    [][(IsRunStep /\ ~HasRows(hist) /\ Len_df(snap') > 0) =>
          /\ Len_df(hist') = Len_df(snap')
          /\ \A r \in RowsOf(hist') :
                /\ TruncatedToMinute(r["first_seen_at"], clock)
                /\ r["last_seen_at"] = r["first_seen_at"]
                /\ CopiesIn(r, hist'.rows)
                       = CopiesIn(Conform(r, snap'.cols), snap'.rows)
          /\ \A s \in RowsOf(snap') :
                \E r \in RowsOf(hist') : Conform(r, snap'.cols) = s]_vars

\* a first run that happened part-way through a minute
FirstRunStampsSnapshotWitness ==
    /\ ~HasRows(prev)
    /\ Len_df(snap) = MaxSnapRows
    /\ Len_df(hist) = MaxSnapRows
    /\ clock % TicksPerMinute # 0
    /\ run_time = FloorMin(clock)
    /\ \A r \in RowsOf(hist) : r["first_seen_at"] = run_time

\* C11: from an empty history, run 1 at T1 with one row (comment A), run 2 at
\* T2 with the same row, run 3 at T3 with the comment changed to B: after
\* run 2 the history is the one row at (T1,T2), after run 3 it is exactly the
\* A row at (T1,T2) and the B row at (T3,T3).
ScenarioRow(comment) == [bill_id |-> "HB1", comment |-> comment]

ScenarioSnapshot(comment) ==
    Table({"bill_id", "comment"}, SetToBag({ScenarioRow(comment)}))

Window(r, first, last) ==
    r @@ [first_seen_at |-> first, last_seen_at |-> last]

Minutes == {FloorMin(t) : t \in 0..MaxClock}

ThreeRunTrace ==
    /\ (~HasRows(prev) /\ snap = ScenarioSnapshot("A")) =>
          hist.rows = SetToBag({Window(ScenarioRow("A"), run_time, run_time)})
    /\ \A T1 \in Minutes :
          (/\ prev.rows = SetToBag({Window(ScenarioRow("A"), T1, T1)})
           /\ snap = ScenarioSnapshot("A")) =>
              hist.rows = SetToBag({Window(ScenarioRow("A"), T1, run_time)})
    /\ \A T1 \in Minutes, T2 \in Minutes :
          (/\ prev.rows = SetToBag({Window(ScenarioRow("A"), T1, T2)})
           /\ snap = ScenarioSnapshot("B")) =>
              hist.rows = SetToBag({Window(ScenarioRow("A"), T1, T2),
                                    Window(ScenarioRow("B"), run_time, run_time)})

\* the state after run 3, the A row having been seen in two different minutes
ThreeRunTraceWitness ==
    /\ snap = ScenarioSnapshot("B")
    /\ \E T1 \in Minutes, T2 \in Minutes :
          /\ T1 < T2
          /\ T2 <= run_time
          /\ prev.rows = SetToBag({Window(ScenarioRow("A"), T1, T2)})
          /\ Len_df(hist) = 2

\* C12: a history built from an empty one holds exactly one row per distinct
\* non-timestamp value combination seen in a snapshot, whatever the snapshots
\* (a snapshot may hold the same row more than once).
RowsWithValues(df, r) ==
    {q \in RowsOf(df) : AgreeOn(q, r, BusinessColumns(q) \cup BusinessColumns(r))}

RECURSIVE TotalCopies(_, _)
TotalCopies(df, S) ==
    IF S = {} THEN 0
    ELSE LET q == CHOOSE e \in S : TRUE
         IN  CopiesIn(q, df.rows) + TotalCopies(df, S \ {q})

OneRowPerCombination ==
    /\ \A r \in RowsOf(hist) : TotalCopies(hist, RowsWithValues(hist, r)) = 1
    /\ \A s \in RowsOf(snap) : TotalCopies(hist, RowsWithValues(hist, s)) = 1

\* ---- FtpConnection: guard, retry, failure containment ---------------------
RetrievalMethods == {"get_data", "ls", "get_pdf_text"}

IsRetrieval == ftp_call.op \in RetrievalMethods

CrossHost == ftp_call.url.netloc # Host

\* the value a retrieval method gives back when it has nothing: None, or the
\* empty list for ls
Nothing == IF ftp_call.op = "ls" THEN "no_urls" ELSE "None"

Count(log, what) == Cardinality({i \in DOMAIN log : log[i] = what})

\* the latest call went through _retry_on_disconnect
Wrapped == IsRetrieval /\ ftp_out.log # <<>>

FirstAttemptRaised == operation(ftp_call.ftp, ftp_in[1]) = "raises"

\* C13: get_data, ls and get_pdf_text, given a URL whose host is not the
\* connection's host, return None (the empty list for ls) without calling the
\* operation, without sending a command and without reconnecting.
CrossHostGuard ==
    (IsRetrieval /\ CrossHost) =>
        /\ ftp_out.ret = Nothing
        /\ ftp_out.log = <<>>
        /\ ftp_out.cmds = 0

\* C14 as stated: whenever the first attempt raises, connect is called and
\* the operation is attempted exactly once more; never more than two attempts
\* and never more than one connect in a call.
RetryOnceAfterReconnect ==
    Wrapped =>
        /\ FirstAttemptRaised =>
               ftp_out.log = <<"operation", "connect", "operation">>
        /\ Count(ftp_out.log, "operation") <= 2
        /\ Count(ftp_out.log, "connect") <= 1

\* C14: a first attempt that returns is the only attempt.  When the first
\* attempt raises, connect is called once; if connect succeeds the operation
\* is attempted exactly once more, and if connect raises there is no second
\* attempt and the wrapper gives None.  Never more than two attempts and never
\* more than one connect in a call.
RetryOnceIfReconnected ==
    Wrapped =>
        /\ ~FirstAttemptRaised => ftp_out.log = <<"operation">>
        /\ (FirstAttemptRaised /\ ftp_in[2] = "ok") =>
               ftp_out.log = <<"operation", "connect", "operation">>
        /\ (FirstAttemptRaised /\ ftp_in[2] # "ok") =>
               /\ ftp_out.log = <<"operation", "connect">>
               /\ ftp_out.ret = Nothing
        /\ Count(ftp_out.log, "operation") <= 2
        /\ Count(ftp_out.log, "connect") <= 1

RetryOnceIfReconnectedWitness ==
    /\ Wrapped
    /\ FirstAttemptRaised
    /\ ftp_in[2] = "ok"
    /\ ftp_in[3] = "raises"
    /\ ftp_out.log = <<"operation", "connect", "operation">>

\* every attempt the call made has failed
AllAttemptsFailed ==
    /\ FirstAttemptRaised
    /\ ftp_in[2] # "ok" \/ ftp_in[3] = "raises"

\* C15: no failure of the first attempt, of the reconnect or of the second
\* attempt leaves a retrieval method as an exception: get_data and
\* get_pdf_text then return None, and ls returns the empty list, never None.
NoTransportFailureEscapes ==
    IsRetrieval =>
        /\ ftp_out.ret # "raises"
        /\ ftp_call.op = "ls" => ftp_out.ret \in {"urls", "no_urls"}
        /\ (Wrapped /\ AllAttemptsFailed) => ftp_out.ret = Nothing

NoTransportFailureEscapesWitness ==
    /\ ftp_call.op = "ls"
    /\ Wrapped
    /\ FirstAttemptRaised
    /\ ftp_in[2] = "login_raises"
    /\ ftp_out.ret = "no_urls"

\* ---- error budgets of the traversal and of the item loop -------------------
\* C16: get_bill_urls never returns its list after more than max_errors
\* listings (of a chamber or of a range folder) have failed: it raises.
TraversalErrorBudget ==
    ext_pc = "bill_urls" => ls_failed <= max_errors

\* C17: in get_raw_bills_data every item whose fetch ended as None is counted
\* in error_count, so the extraction does not return after more than
\* max_errors such items.
NullFetchCounted ==
    /\ null_fetches <= error_count
    /\ ext_pc = "returned" => null_fetches <= max_errors

\* C19: an item whose document carries the "does not exist" status makes
\* parse_bill_xml return None without raising, and the iteration of
\* get_raw_bills_data that fetched it appends no record, leaves error_count
\* as it was and goes on with the loop.
SentinelIsNotAnError ==
    [][(fetched' = fetched + 1 /\ item'.doc = "does_not_exist") =>
           /\ item'.bill_data = "None"
           /\ raw_bills' = raw_bills
           /\ error_count' = error_count
           /\ ext_pc' = "bills"]_all_vars

SentinelIsNotAnErrorWitness ==
    /\ ext_pc = "bills"
    /\ fetched > 0
    /\ item.xml_str = "data"
    /\ item.doc = "does_not_exist"
    /\ item.bill_data = "None"

\* ---- the run and the error budgets of its stages ---------------------------
\* C18: once a stage of tx_leg_pipeline has exceeded its error budget the run
\* is aborted: no later stage is started and no further table is written.
BudgetExceededAborts ==
    exceeded # {} =>
        /\ run_state = "aborted"
        /\ ran_after = {}
        /\ written_after = {}

\* ---- the calendar type -----------------------------------------------------
CanonicalLabels ==
    {PreFiledAmendments, CongratulatoryMemorial, SupplementalHouse, DailyHouse}

\* the rules of the ordered list that match the text once it is cleaned
MatchingRules(text) ==
    {i \in DOMAIN calendar_patterns :
        re_match(calendar_patterns[i].pattern, cleaned(text))}

\* the value is the label of the first rule that matches the text
FirstRuleLabel(text, value) ==
    \E i \in MatchingRules(text) :
        /\ \A j \in MatchingRules(text) : i <= j
        /\ value = calendar_patterns[i].label

\* C20 as stated: the calendar_type the parser returns is always one of the
\* four canonical labels, chosen by the first matching rule.
CalendarTypeCanonical ==
    cal_pc = "returned" =>
        /\ calendar_type \in CanonicalLabels
        /\ cal_text # <<>> => FirstRuleLabel(cal_text, calendar_type)

\* C20: when a rule of the ordered list matches the text a strategy found, the
\* calendar_type is the canonical label of the first rule that matches; when
\* no rule matches, it is that text itself, cleaned and upper-cased; when no
\* strategy finds a text, it is DAILY HOUSE CALENDAR.
CalendarTypeFirstRuleOrText ==
    cal_pc = "returned" =>
        /\ (cal_text # <<>> /\ MatchingRules(cal_text) # {}) =>
               /\ FirstRuleLabel(cal_text, calendar_type)
               /\ calendar_type \in CanonicalLabels
        /\ (cal_text # <<>> /\ MatchingRules(cal_text) = {}) =>
               calendar_type = cleaned(cal_text)
        /\ cal_text = <<>> => calendar_type = DailyHouse

CalendarTypeFirstRuleOrTextWitness ==
    /\ cal_pc = "returned"
    /\ cal_text = <<"Supplemental", "House", "Calendar">>
    /\ Cardinality(MatchingRules(cal_text)) > 1
    /\ calendar_type = SupplementalHouse

\* ---- the lifetime of the session -------------------------------------------
\* the latest call was close() and it returned
CloseReturned == ftp_call.op = "close" /\ ftp_out.ret # "raises"

\* C26: the constructor connects exactly once; once close() has returned the
\* handle is None; and close() on a released handle sends nothing and does
\* not raise.
SessionLifetime ==
    /\ ftp_call.op = "__init__" =>
           /\ ftp_out.log = <<"connect">>
           /\ ftp = "open"
    /\ CloseReturned => ftp = "None"
    /\ (ftp_call.op = "close" /\ ftp_call.ftp = "None") =>
           /\ ftp_out.ret = "None"
           /\ ftp_out.log = <<>>
           /\ ftp_out.cmds = 0

\* the latest call was get_data or ls on a URL of the connection's host and it
\* found the handle released
UsedAfterClose ==
    /\ ftp_call.op \in {"get_data", "ls"}
    /\ ~CrossHost
    /\ ftp_call.ftp = "None"

\* C28: get_data or ls after close() has released the session fails its first
\* attempt without sending a command, calls connect, and when connect
\* succeeds runs the operation once more on the new session: the call gives
\* what that attempt gives and leaves the session open.
UseAfterCloseReconnects ==
    UsedAfterClose =>
        /\ SubSeq(ftp_out.log, 1, 2) = <<"operation", "connect">>
        /\ ftp_in[2] = "ok" =>
               /\ ftp_out.log = <<"operation", "connect", "operation">>
               /\ ftp_out.cmds = 1
               /\ ftp = "open"
               /\ ftp_out.ret = IF ftp_in[3] = "raises" THEN Nothing
                                ELSE ftp_in[3]

UseAfterCloseReconnectsWitness ==
    /\ UsedAfterClose
    /\ ftp_call.op = "get_data"
    /\ ftp_in[2] = "ok"
    /\ ftp_out.ret = "data"
    /\ ftp = "open"

\* ---- the two reconcilers ---------------------------------------------------
\* the rows of the warehouse table with their timestamps read back
WarehouseRows ==
    {[c \in DOMAIN r |-> IF c \in TimestampColumns THEN PARSE_TIMESTAMP(r[c])
                         ELSE r[c]] : r \in RowsOf(wh)}

\* C27: fed the same snapshots of one column set at the same times, starting
\* from no table, the in-memory merge and the warehouse path hold the same set
\* of rows (business columns, first_seen_at, last_seen_at) after every run.
ReconcilersAgree == RowsOf(hist) = WarehouseRows

\* both hold a row seen over two minutes and a row seen once, and the
\* in-memory table holds a row twice
ReconcilersAgreeWitness ==
    /\ Cardinality(WarehouseRows) >= 2
    /\ \E r \in WarehouseRows : r.first_seen_at < r.last_seen_at
    /\ \E r \in WarehouseRows : r.comment = NA
    /\ Len_df(hist) > Cardinality(RowsOf(hist))
    /\ RowsOf(hist) = WarehouseRows

\* ---- the error budget of the item loop -------------------------------------
RaisedInLoop == ext_pc = "raised" /\ fetched > 0

Increasing(q) == \A i, j \in DOMAIN q : i < j => q[i] < q[j]

\* C29: get_raw_bills_data stops at the first item that takes the count of
\* failed items above max_errors: when it raises, exactly max_errors + 1 items
\* have failed and no later item is fetched; it returns only with at most
\* max_errors failed items and every item visited, and raw_bills then holds
\* one record for each item that parsed to a non-empty result, in the order of
\* the traversal.
StopsAtFirstItemOverBudget ==
    /\ [](/\ RaisedInLoop => error_count = max_errors + 1
          /\ ext_pc = "bills" => error_count <= max_errors
          /\ ext_pc = "returned" =>
                 /\ error_count <= max_errors
                 /\ fetched = bill_urls
          /\ Increasing(raw_bills)
          /\ \A i \in DOMAIN raw_bills : raw_bills[i] \in 1..fetched)
    /\ [][/\ ext_pc = "raised" => fetched' = fetched /\ ext_pc' = "raised"
          /\ fetched' # fetched =>
                 /\ fetched' = fetched + 1
                 /\ error_count' = error_count
                        + (IF item'.bill_data = "raises" THEN 1 ELSE 0)
                 /\ raw_bills' = IF item'.bill_data = "record"
                                 THEN Append(raw_bills, fetched')
                                 ELSE raw_bills]_all_vars

\* the loop raised after a record was kept and before the last item
StopsAtFirstItemOverBudgetWitness ==
    /\ RaisedInLoop
    /\ fetched < bill_urls
    /\ error_count = max_errors + 1
    /\ Len(raw_bills) = 1

\* ---- the error budget of the committee links -------------------------------
\* C30: get_committee_meetings_links visits exactly the chambers H, J, S and
\* counts at most one error per chamber, so with the default max_errors = 5
\* it never raises; when every chamber fails it returns an empty table.
LinksBudgetNeverFires ==
    /\ links_pc # "raised"
    /\ links_error_count <= Len(visited)
    /\ \A i \in DOMAIN visited : visited[i] = <<"H", "J", "S">>[i]
    /\ links_pc = "returned" =>
           /\ visited = <<"H", "J", "S">>
           /\ links_error_count = 3 => committee_meetings = <<>>

\* every chamber failed and the call returned
LinksBudgetNeverFiresWitness ==
    /\ links_pc = "returned"
    /\ links_error_count = 3
    /\ committee_meetings = <<>>

\* ---- identifiers -----------------------------------------------------------
\* "89(R) HB 1", "HB1" and "89R"
RawHB1 == <<"8", "9", "(", "R", ")", " ", "H", "B", " ", "1">>

HB1 == <<"H", "B", "1">>

Session89R == <<"8", "9", "R">>

AllIn(str, chars) == str # <<>> /\ \A k \in DOMAIN str : str[k] \in chars

\* the parts of a raw identifier with its parenthesis at position i and the
\* blank before its number at position j
SessionPart(str, i) == SubSeq(str, 1, i - 1)

TypePart(str, i, j) == SubSeq(str, i + 4, j - 1)

NumberPart(str, j) == SubSeq(str, j + 1, Len(str))

\* '<session>(<letter>) <TYPE> <number>' with these positions
ShapedAt(str, i, j) ==
    /\ i + 4 < j /\ j < Len(str)
    /\ str[i] = "(" /\ str[i + 2] = ")" /\ str[i + 3] = " " /\ str[j] = " "
    /\ str[i + 1] \in CapitalLetters \cup Digits
    /\ AllIn(SessionPart(str, i), Digits)
    /\ AllIn(TypePart(str, i, j), CapitalLetters)
    /\ AllIn(NumberPart(str, j), Digits)

\* C24: clean_bill_id maps '<session>(<letter>) <TYPE> <number>' to
\* (TYPE + number, session + letter), and '89(R) HB 1' to ('HB1', '89R'); for
\* every type prefix of capital letters and every number the spacing rule of
\* the page parser puts one blank between them, and the normalizer's removal
\* of blanks gives the unspaced identifier back.
IdentifierRoundTrip ==
    /\ norm_op = "clean_bill_id" =>
           /\ norm_in = RawHB1 => norm_out = Returns(<<HB1, Session89R>>)
           /\ \A i, j \in DOMAIN norm_in :
                  ShapedAt(norm_in, i, j) =>
                      norm_out = Returns(
                          <<TypePart(norm_in, i, j) \o NumberPart(norm_in, j),
                            SessionPart(norm_in, i) \o <<norm_in[i + 1]>>>>)
    /\ norm_op = "format_bill_id" =>
           /\ \E k \in DOMAIN norm_in :
                  /\ AllIn(SubSeq(norm_in, 1, k), CapitalLetters)
                  /\ AllIn(SubSeq(norm_in, k + 1, Len(norm_in)), Digits)
                  /\ norm_out.ret = SubSeq(norm_in, 1, k) \o <<" ">>
                                        \o SubSeq(norm_in, k + 1, Len(norm_in))
           /\ remove(norm_out.ret, " ") = norm_in
           /\ format_bill_id(norm_out.ret) = norm_out.ret

\* the parser has spaced a two-letter, two-digit identifier
IdentifierRoundTripWitness ==
    /\ norm_op = "format_bill_id"
    /\ norm_in = <<"H", "B", "1", "2">>
    /\ norm_out.ret = <<"H", "B", " ", "1", "2">>

Malformed(raw_bills_df) ==
    {i \in DOMAIN raw_bills_df : clean_bill_id(raw_bills_df[i]).raises}

Transforms == {"get_authors_data", "get_complete_bills_list"}

\* the rows of a transform's output, list or set
OutputRows(out) ==
    IF norm_op = "get_authors_data" THEN {out[i] : i \in DOMAIN out} ELSE out

\* C25: a transform given an item with a malformed identifier does not raise,
\* and its output holds the rows of every other item.
MalformedItemSkipped ==
    (norm_op \in Transforms /\ Malformed(norm_in) # {}) =>
        /\ ~norm_out.raises
        /\ \A i \in (DOMAIN norm_in) \ Malformed(norm_in) :
               \E row \in OutputRows(norm_out.ret) :
                   /\ row.bill_id = clean_bill_id(norm_in[i]).ret[1]
                   /\ row.leg_id = clean_bill_id(norm_in[i]).ret[2]

\* what holds: the transforms whose loop body is inside a try skip the item
GuardedTransforms == {"get_authors_data"}

GuardedTransformSkips ==
    (norm_op \in GuardedTransforms /\ Malformed(norm_in) # {}) =>
        /\ ~norm_out.raises
        /\ \A i \in (DOMAIN norm_in) \ Malformed(norm_in) :
               \E row \in OutputRows(norm_out.ret) :
                   /\ row.bill_id = clean_bill_id(norm_in[i]).ret[1]
                   /\ row.leg_id = clean_bill_id(norm_in[i]).ret[2]

\* ---- the output groups of the calendar parser ------------------------------
\* C21: in every Calendar that parse returns, the reading_count of each
\* subcalendar is fixed by the calendar_type of the same Calendar: 1 for the
\* list of pre-filed amendments and for the congratulatory and memorial
\* calendar, 2 for a daily or supplemental calendar.
ReadingCountByType ==
    parse_pc = "returned" =>
        \A i \in DOMAIN calendar.subcalendars :
            /\ calendar.calendar_type
                   \in {PreFiledAmendments, CongratulatoryMemorial} =>
                   calendar.subcalendars[i].reading_count = 1
            /\ calendar.calendar_type \in {DailyHouse, SupplementalHouse} =>
                   calendar.subcalendars[i].reading_count = 2

\* a memorial calendar with a daily header and a section of its own, both
\* with bills
ReadingCountByTypeWitness ==
    /\ parse_pc = "returned"
    /\ calendar.calendar_type = CongratulatoryMemorial
    /\ Len(data.body) = 3
    /\ data.body[1] = Header("MAJOR STATE CALENDAR")
    /\ Len(calendar.subcalendars) = 1

\* the identifiers of the document, in document order
DocumentBillIds == extract_bill_ids_from_text(data.body)

PrefiledPage ==
    /\ parse_pc = "returned"
    /\ Contains(cleaned(data.title), <<"PREFILED", "AMENDMENTS">>)
           \/ Contains(cleaned(data.title), <<"PRE-FILED", "AMENDMENTS">>)

\* C22 as stated: a page classified as pre-filed amendments has the canonical
\* amendments type and exactly one subcalendar, with an empty type,
\* reading_count 1 and all identifiers of the document in document order.
PrefiledOneGroup ==
    PrefiledPage =>
        /\ calendar.calendar_type = PreFiledAmendments
        /\ calendar.subcalendars = <<Subcalendar(1, "", DocumentBillIds)>>

\* C22, amended: a page classified as pre-filed amendments has the canonical
\* amendments type; when the document holds at least one identifier it has
\* exactly one subcalendar, with an empty type, reading_count 1 and all
\* identifiers of the document in document order; when it holds none it has
\* no subcalendar.
PrefiledOneGroupIfAnyBill ==
    PrefiledPage =>
        /\ calendar.calendar_type = PreFiledAmendments
        /\ DocumentBillIds # <<>> =>
               calendar.subcalendars = <<Subcalendar(1, "", DocumentBillIds)>>
        /\ DocumentBillIds = <<>> => calendar.subcalendars = <<>>

\* a pre-filed amendments page with two bills under different headers
PrefiledOneGroupIfAnyBillWitness ==
    /\ PrefiledPage
    /\ data.title = <<"Prefiled", "Amendments", "Calendar">>
    /\ Len(DocumentBillIds) = 2
    /\ data.body[2].kind = "header"
    /\ calendar.subcalendars =
           <<Subcalendar(1, "", <<<<"S", "B", " ", "2">>,
                                  <<"H", "B", " ", "1">>>>)>>

\* ---- totality of the two parsers -------------------------------------------
\* parse_bill_xml on a document that was fetched returns
ParseBillXmlTotal == item.xml_str = "data" => item.bill_data # "raises"

\* HouseCalendarParser.parse returns
CalendarParseTotal == parse_pc # "raised"

\* C23: both parsers are total: parse_bill_xml on a fetched document with
\* optional elements or attributes missing or malformed, and
\* HouseCalendarParser.parse on any input, return a result and never raise.
ParsersAreTotal == ParseBillXmlTotal /\ CalendarParseTotal

====
